---- MODULE Spec2Model ----
(***************************************************************************)
(* Model of oem_cp: conversion between single-byte OEM code pages and      *)
(* Unicode.  Bytes are integers 0..255 (u8), characters are Unicode code   *)
(* points (integers).  Option<T> is a sequence of length 0 (None) or       *)
(* 1 (Some(v)); String and Vec<u8> are sequences.                          *)
(***************************************************************************)
EXTENDS Integers, Sequences, FiniteSets, TLC

VARIABLES
    decoder,      \* the TableType the caller decodes with
    encoder,      \* the encoding table the caller encodes with
    op,           \* the operation whose result the caller holds ("idle": none)
    input,        \* the argument of that operation
    result,       \* what it returned
    local_ret,    \* the local buffer `ret` of a checked sequence operation at its return
    threads,      \* the calls of the threads that share the tables, one record a thread
    dataset,      \* assets/code_tables.json and assets/code_tables_patch_win.json
    gen_pc,       \* position of generate_tables
    code_tables,  \* CodeTables::tables, the Vec<(u16, Table)> of parse_code_tables
    output,       \* the items written to `output` so far
    generated     \* src/code_table.generated.rs

codec_vars == <<decoder, encoder, op, input, result, local_ret, threads>>
gen_vars == <<dataset, gen_pc, code_tables, output, generated>>
vars == <<decoder, encoder, op, input, result, local_ret, threads,
          dataset, gen_pc, code_tables, output, generated>>

\* Longest byte sequence / string handed to a sequence operation.
MaxLen == 3

\* Longest byte sequence / string handed to a sequence operation by a thread
\* that shares the tables with other threads.
MaxShared == 2

\* ------------------------------------------------------------------------
\* Option<T>
None == <<>>
Some(v) == <<v>>
IsSome(o) == Len(o) = 1
IsNone(o) == Len(o) = 0
Unwrap(o) == o[1]
unwrap_or(o, default) == IF IsSome(o) THEN o[1] ELSE default

\* ------------------------------------------------------------------------
\* Program constants
TABLE_LEN == 128
ASCII_LIMIT == 128
REPLACEMENT == 65533
QUESTION_MARK == 63

Bytes == 0..255

\* u8 & u8, bit by bit
RECURSIVE BitAnd(_, _)
BitAnd(a, b) ==
    IF a = 0 \/ b = 0 THEN 0
    ELSE (a % 2) * (b % 2) + 2 * BitAnd(a \div 2, b \div 2)

\* `byte as char`: the code point with the value of the byte
u8_as_char(byte) == byte

\* `c as u8`: the low eight bits of the code point
char_as_u8(c) == c % 256

\* ------------------------------------------------------------------------
\* Decoder (string.rs)

\* Mutant: the slot index is masked with 63
decode_char_complete_table_mask63(src, decoding_table) ==
    IF src < ASCII_LIMIT
    THEN u8_as_char(src)
    ELSE decoding_table[BitAnd(src, 63)]

decode_char_complete_table(src, decoding_table) ==
    IF src < ASCII_LIMIT
    THEN u8_as_char(src)
    ELSE decoding_table[BitAnd(src, 127)]

\* Mutant: every byte is looked up in the table
decode_char_incomplete_table_checked_lookup(src, decoding_table) ==
    decoding_table[BitAnd(src, 127)]

decode_char_incomplete_table_checked(src, decoding_table) ==
    IF src < ASCII_LIMIT
    THEN Some(u8_as_char(src))
    ELSE decoding_table[BitAnd(src, 127)]

\* Mutant: an undefined byte is replaced by '?'
decode_char_incomplete_table_lossy_question(src, decoding_table) ==
    IF src < ASCII_LIMIT
    THEN u8_as_char(src)
    ELSE unwrap_or(decoding_table[BitAnd(src, 127)], QUESTION_MARK)

decode_char_incomplete_table_lossy(src, decoding_table) ==
    IF src < ASCII_LIMIT
    THEN u8_as_char(src)
    ELSE unwrap_or(decoding_table[BitAnd(src, 127)], REPLACEMENT)

\* The closure |byte| ... of decode_string_complete_table
decode_string_complete_table_closure(byte, decoding_table) ==
    IF byte < ASCII_LIMIT
    THEN u8_as_char(byte)
    ELSE decoding_table[BitAnd(byte, 127)]

\* src.iter().map(|byte| ...).collect(), from position i on
RECURSIVE decode_string_complete_table_from(_, _, _)
decode_string_complete_table_from(src, decoding_table, i) ==
    IF i > Len(src) THEN <<>>
    ELSE <<decode_string_complete_table_closure(src[i], decoding_table)>>
             \o decode_string_complete_table_from(src, decoding_table, i + 1)

decode_string_complete_table(src, decoding_table) ==
    decode_string_complete_table_from(src, decoding_table, 1)

\* The for loop of decode_string_incomplete_table_checked, entered at
\* position i with the local buffer ret.  `?` leaves the function with None;
\* the record also carries the local buffer as it is when the function
\* returns.
RECURSIVE decode_string_incomplete_table_checked_loop(_, _, _, _)
decode_string_incomplete_table_checked_loop(src, decoding_table, i, ret) ==
    IF i > Len(src) THEN [value |-> Some(ret), ret |-> ret]
    ELSE LET byte == src[i] IN
         IF byte < ASCII_LIMIT
         THEN decode_string_incomplete_table_checked_loop(
                  src, decoding_table, i + 1, Append(ret, u8_as_char(byte)))
         ELSE LET slot == decoding_table[BitAnd(byte, 127)] IN
              IF IsNone(slot)
              THEN [value |-> None, ret |-> ret]
              ELSE decode_string_incomplete_table_checked_loop(
                       src, decoding_table, i + 1, Append(ret, Unwrap(slot)))

\* Mutant: the characters decoded before the undefined byte are returned
decode_string_incomplete_table_checked_prefix(src, decoding_table) ==
    Some(decode_string_incomplete_table_checked_loop(src, decoding_table, 1, <<>>).ret)

decode_string_incomplete_table_checked(src, decoding_table) ==
    decode_string_incomplete_table_checked_loop(src, decoding_table, 1, <<>>).value

\* Mutant: an undefined byte is replaced by '?'
decode_string_incomplete_table_lossy_closure_question(byte, decoding_table) ==
    IF byte < ASCII_LIMIT
    THEN u8_as_char(byte)
    ELSE unwrap_or(decoding_table[BitAnd(byte, 127)], QUESTION_MARK)

\* The closure |byte| ... of decode_string_incomplete_table_lossy
decode_string_incomplete_table_lossy_closure(byte, decoding_table) ==
    IF byte < ASCII_LIMIT
    THEN u8_as_char(byte)
    ELSE unwrap_or(decoding_table[BitAnd(byte, 127)], REPLACEMENT)

\* src.iter().map(|byte| ...).collect(), from position i on
RECURSIVE decode_string_incomplete_table_lossy_from(_, _, _)
decode_string_incomplete_table_lossy_from(src, decoding_table, i) ==
    IF i > Len(src) THEN <<>>
    ELSE <<decode_string_incomplete_table_lossy_closure(src[i], decoding_table)>>
             \o decode_string_incomplete_table_lossy_from(src, decoding_table, i + 1)

decode_string_incomplete_table_lossy(src, decoding_table) ==
    decode_string_incomplete_table_lossy_from(src, decoding_table, 1)

\* ------------------------------------------------------------------------
\* Encoder (string.rs).  An encoding table (OEMCPHashMap<char, u8>) is a
\* function from its keys to bytes.

\* encoding_table.get(&c).copied()
get(encoding_table, c) ==
    IF c \in DOMAIN encoding_table THEN Some(encoding_table[c]) ELSE None

\* Mutant: a character the table lacks is cast to a byte
encode_char_checked_cast(src, encoding_table) ==
    IF src < ASCII_LIMIT
    THEN Some(char_as_u8(src))
    ELSE Some(unwrap_or(get(encoding_table, src), char_as_u8(src)))

\* Mutant: the table is consulted before the ASCII range
encode_char_checked_table_first(src, encoding_table) ==
    IF src \in DOMAIN encoding_table
    THEN Some(encoding_table[src])
    ELSE IF src < ASCII_LIMIT THEN Some(char_as_u8(src)) ELSE None

encode_char_checked(src, encoding_table) ==
    IF src < ASCII_LIMIT
    THEN Some(char_as_u8(src))
    ELSE get(encoding_table, src)

\* Mutant: an unmappable character is cast to a byte
encode_char_lossy_cast(src, encoding_table) ==
    IF src < ASCII_LIMIT
    THEN char_as_u8(src)
    ELSE unwrap_or(get(encoding_table, src), char_as_u8(src))

encode_char_lossy(src, encoding_table) ==
    IF src < ASCII_LIMIT
    THEN char_as_u8(src)
    ELSE unwrap_or(get(encoding_table, src), QUESTION_MARK)

\* The for loop of encode_string_checked, entered at position i with the
\* local buffer ret.  `?` leaves the function with None; the record also
\* carries the local buffer as it is when the function returns.
RECURSIVE encode_string_checked_loop(_, _, _, _)
encode_string_checked_loop(src, encoding_table, i, ret) ==
    IF i > Len(src) THEN [value |-> Some(ret), ret |-> ret]
    ELSE LET c == src[i] IN
         IF c < ASCII_LIMIT
         THEN encode_string_checked_loop(src, encoding_table, i + 1,
                                         Append(ret, char_as_u8(c)))
         ELSE LET entry == get(encoding_table, c) IN
              IF IsNone(entry)
              THEN [value |-> None, ret |-> ret]
              ELSE encode_string_checked_loop(src, encoding_table, i + 1,
                                              Append(ret, Unwrap(entry)))

\* Mutant: the bytes encoded before the unmappable character are returned
encode_string_checked_prefix(src, encoding_table) ==
    Some(encode_string_checked_loop(src, encoding_table, 1, <<>>).ret)

encode_string_checked(src, encoding_table) ==
    encode_string_checked_loop(src, encoding_table, 1, <<>>).value

\* Mutant: an unmappable character is cast to a byte
encode_string_lossy_closure_cast(c, encoding_table) ==
    IF c < ASCII_LIMIT
    THEN char_as_u8(c)
    ELSE unwrap_or(get(encoding_table, c), char_as_u8(c))

\* Mutant: the table is consulted for every character, ASCII included
encode_string_lossy_closure_table_only(c, encoding_table) ==
    unwrap_or(get(encoding_table, c), QUESTION_MARK)

\* The closure |c| ... of encode_string_lossy
encode_string_lossy_closure(c, encoding_table) ==
    IF c < ASCII_LIMIT
    THEN char_as_u8(c)
    ELSE unwrap_or(get(encoding_table, c), QUESTION_MARK)

\* src.chars().map(|c| ...).collect(), from position i on
RECURSIVE encode_string_lossy_from(_, _, _)
encode_string_lossy_from(src, encoding_table, i) ==
    IF i > Len(src) THEN <<>>
    ELSE <<encode_string_lossy_closure(src[i], encoding_table)>>
             \o encode_string_lossy_from(src, encoding_table, i + 1)

encode_string_lossy(src, encoding_table) ==
    encode_string_lossy_from(src, encoding_table, 1)

\* ------------------------------------------------------------------------
\* TableType: Complete(&[char; 128]) | Incomplete(&[Option<char>; 128])
Complete(table_ref) == [tag |-> "Complete", table |-> table_ref]
Incomplete(table_ref) == [tag |-> "Incomplete", table |-> table_ref]

TableType_decode_string_checked(self, src) ==
    IF self.tag = "Complete"
    THEN Some(decode_string_complete_table(src, self.table))
    ELSE decode_string_incomplete_table_checked(src, self.table)

TableType_decode_string_lossy(self, src) ==
    IF self.tag = "Complete"
    THEN decode_string_complete_table(src, self.table)
    ELSE decode_string_incomplete_table_lossy(src, self.table)

TableType_decode_char_checked(self, byte) ==
    IF self.tag = "Complete"
    THEN Some(decode_char_complete_table(byte, self.table))
    ELSE decode_char_incomplete_table_checked(byte, self.table)

\* The methods impl TableType has
TableType_methods ==
    {"decode_string_checked", "decode_string_lossy", "decode_char_checked"}

\* ------------------------------------------------------------------------
\* Decoding tables handed to the decoder.  All 128 slots are present; the
\* slots of DecodingVarSlots range over SlotChars (and over None in an
\* Incomplete table), every other slot i holds BaseChar(i).
DecodingVarSlots == {0, 1, 127}
SlotChars == {65, 233, 65533}
BaseChar(i) == 256 + i

CompleteTables ==
    { [i \in 0..(TABLE_LEN - 1) |-> IF i \in DecodingVarSlots THEN f[i] ELSE BaseChar(i)] :
        f \in [DecodingVarSlots -> SlotChars] }

IncompleteTables ==
    { [i \in 0..(TABLE_LEN - 1) |-> IF i \in DecodingVarSlots THEN f[i] ELSE Some(BaseChar(i))] :
        f \in [DecodingVarSlots -> {None} \cup {Some(c) : c \in SlotChars}] }

Decoders ==
    {Complete(t) : t \in CompleteTables} \cup {Incomplete(t) : t \in IncompleteTables}

\* Bytes of the sequences handed to the sequence operations
SeqBytes == {65, 128, 129, 255}

RECURSIVE SeqsUpTo(_, _)
SeqsUpTo(S, n) ==
    IF n = 0 THEN {<<>>}
    ELSE LET shorter == SeqsUpTo(S, n - 1)
         IN shorter \cup {Append(s, x) : s \in {t \in shorter : Len(t) = n - 1}, x \in S}

ByteSeqs == SeqsUpTo(SeqBytes, MaxLen)

NoEncoder == [c \in {} |-> 0]

\* No generation is modelled: nothing to read, nothing written
NoGeneration ==
    /\ dataset = [tables |-> <<>>, patch |-> <<>>, patch_file |-> TRUE]
    /\ gen_pc = "off"
    /\ code_tables = <<>>
    /\ output = <<>>
    /\ generated = None

InitDecode ==
    /\ NoGeneration
    /\ decoder \in Decoders
    /\ encoder = NoEncoder
    /\ op = "idle"
    /\ input = <<>>
    /\ result = <<>>
    /\ local_ret = <<>>
    /\ threads = <<>>

\* A caller that holds no pending result calls `name` with `arg`; the state
\* then holds what the call returned.
Returned(name, arg, value, ret) ==
    /\ op = "idle"
    /\ op' = name
    /\ input' = arg
    /\ result' = value
    /\ local_ret' = ret
    /\ UNCHANGED <<decoder, encoder, threads>>
    /\ UNCHANGED gen_vars

Call_decode_string_complete_table ==
    /\ decoder.tag = "Complete"
    /\ \E src \in ByteSeqs :
          Returned("decode_string_complete_table", src,
                   decode_string_complete_table(src, decoder.table), <<>>)

Call_decode_char_complete_table ==
    /\ decoder.tag = "Complete"
    /\ \E src \in Bytes :
          Returned("decode_char_complete_table", src,
                   decode_char_complete_table(src, decoder.table), <<>>)

Call_decode_string_incomplete_table_checked ==
    /\ decoder.tag = "Incomplete"
    /\ \E src \in ByteSeqs :
          Returned("decode_string_incomplete_table_checked", src,
                   decode_string_incomplete_table_checked(src, decoder.table),
                   decode_string_incomplete_table_checked_loop(src, decoder.table, 1, <<>>).ret)

Call_decode_string_incomplete_table_lossy ==
    /\ decoder.tag = "Incomplete"
    /\ \E src \in ByteSeqs :
          Returned("decode_string_incomplete_table_lossy", src,
                   decode_string_incomplete_table_lossy(src, decoder.table), <<>>)

Call_decode_char_incomplete_table_checked ==
    /\ decoder.tag = "Incomplete"
    /\ \E src \in Bytes :
          Returned("decode_char_incomplete_table_checked", src,
                   decode_char_incomplete_table_checked(src, decoder.table), <<>>)

Call_decode_char_incomplete_table_lossy ==
    /\ decoder.tag = "Incomplete"
    /\ \E src \in Bytes :
          Returned("decode_char_incomplete_table_lossy", src,
                   decode_char_incomplete_table_lossy(src, decoder.table), <<>>)

Call_TableType_decode_string_checked ==
    \E src \in ByteSeqs :
        Returned("TableType::decode_string_checked", src,
                 TableType_decode_string_checked(decoder, src), <<>>)

Call_TableType_decode_string_lossy ==
    \E src \in ByteSeqs :
        Returned("TableType::decode_string_lossy", src,
                 TableType_decode_string_lossy(decoder, src), <<>>)

Call_TableType_decode_char_checked ==
    \E byte \in Bytes :
        Returned("TableType::decode_char_checked", byte,
                 TableType_decode_char_checked(decoder, byte), <<>>)

\* The caller drops the returned value and is ready for the next call.
Drop ==
    /\ op # "idle"
    /\ op' = "idle"
    /\ input' = <<>>
    /\ result' = <<>>
    /\ local_ret' = <<>>
    /\ UNCHANGED <<decoder, encoder, threads>>
    /\ UNCHANGED gen_vars

NextDecode ==
    \/ Call_decode_string_complete_table
    \/ Call_decode_char_complete_table
    \/ Call_decode_string_incomplete_table_checked
    \/ Call_decode_string_incomplete_table_lossy
    \/ Call_decode_char_incomplete_table_checked
    \/ Call_decode_char_incomplete_table_lossy
    \/ Call_TableType_decode_string_checked
    \/ Call_TableType_decode_string_lossy
    \/ Call_TableType_decode_char_checked
    \/ Drop

SpecDecode == InitDecode /\ [][NextDecode]_vars

\* ------------------------------------------------------------------------
\* Encoding tables handed to the encoder: every map from a subset of
\* EncoderKeys to EncoderBytes.
EncoderKeys == {65, 233, 8364}
EncoderBytes == {63, 128, 255}

Encoders == UNION {[K -> EncoderBytes] : K \in SUBSET EncoderKeys}

\* Characters handed to the single-character operations, and the characters
\* of the strings handed to the sequence operations
Chars == (0..255) \cup {256, 8364, 26085, 65533, 1114111}
SeqChars == {63, 65, 233, 8364, 26085}

Strings == SeqsUpTo(SeqChars, MaxLen)

NoDecoder == Incomplete([i \in 0..(TABLE_LEN - 1) |-> None])

InitEncode ==
    /\ NoGeneration
    /\ decoder = NoDecoder
    /\ encoder \in Encoders
    /\ op = "idle"
    /\ input = <<>>
    /\ result = <<>>
    /\ local_ret = <<>>
    /\ threads = <<>>

Call_encode_string_checked ==
    \E src \in Strings :
        Returned("encode_string_checked", src,
                 encode_string_checked(src, encoder),
                 encode_string_checked_loop(src, encoder, 1, <<>>).ret)

Call_encode_string_lossy ==
    \E src \in Strings :
        Returned("encode_string_lossy", src, encode_string_lossy(src, encoder), <<>>)

Call_encode_char_checked ==
    \E src \in Chars :
        Returned("encode_char_checked", src, encode_char_checked(src, encoder), <<>>)

Call_encode_char_lossy ==
    \E src \in Chars :
        Returned("encode_char_lossy", src, encode_char_lossy(src, encoder), <<>>)

NextEncode ==
    \/ Call_encode_string_checked
    \/ Call_encode_string_lossy
    \/ Call_encode_char_checked
    \/ Call_encode_char_lossy
    \/ Drop

SpecEncode == InitEncode /\ [][NextEncode]_vars

\* ------------------------------------------------------------------------
\* Table generator (tests/code_table_generator.rs).  A raw table is a
\* Vec<Option<u32>>, here a function on 0..len-1; the patch of a codepage is
\* a HashMap<u8, u32>.

\* char::from_u32: None for a surrogate and for a value above U+10FFFF
char_from_u32(i) ==
    IF (0 <= i /\ i < 55296) \/ (57343 < i /\ i <= 1114111) THEN Some(i) ELSE None

\* Mutant: a missing patch file is read as an empty patch
open_patch_file_or_empty(data) ==
    IF data.patch_file THEN Some(data.patch) ELSE Some(<<>>)

\* File::open(patch_path)? and serde_json::from_reader(patch_file): None when
\* the file cannot be opened (parse_code_tables returns the io::Error)
open_patch_file(data) ==
    IF data.patch_file THEN Some(data.patch) ELSE None

\* The patch keys read as u8, (k.parse().unwrap(), v): None when one of them
\* is not in 0..255 (the unwrap panics)
parse_patch_keys(raw_patch) ==
    IF \E cp \in DOMAIN raw_patch : \E k \in DOMAIN raw_patch[cp] : k \notin 0..255
    THEN None
    ELSE Some(raw_patch)

\* "Apply patches": c.or_else(|| patch_for_codepage.get(&(i as u8)).copied())
apply_patch(code_page, table, patch) ==
    IF code_page \in DOMAIN patch
    THEN [i \in DOMAIN table |->
            IF IsSome(table[i]) THEN table[i] ELSE get(patch[code_page], i % 256)]
    ELSE table

\* Mutant: the table keeps the first 128 slots, take(128) for skip(128)
parse_table_take(code_page, raw_table, patch) ==
    LET table == apply_patch(code_page, raw_table, patch)
        complete == \A i \in DOMAIN table : IsSome(table[i])
        len == Cardinality(DOMAIN table)
        taken == [i \in 0..(len - 129) |-> table[i]]
        invalid == \E i \in DOMAIN taken :
                      IsSome(taken[i]) /\ IsNone(char_from_u32(Unwrap(taken[i])))
    IN IF invalid \/ Cardinality(DOMAIN taken) # TABLE_LEN
       THEN None
       ELSE Some([code_page |-> code_page,
                  table |-> IF complete
                            THEN Complete([i \in DOMAIN taken |-> Unwrap(taken[i])])
                            ELSE Incomplete(taken)])

\* Mutant: a table that is too short is padded with undefined slots
parse_table_padded(code_page, raw_table, patch) ==
    LET table == apply_patch(code_page, raw_table, patch)
        complete == \A i \in 0..255 : i \in DOMAIN table /\ IsSome(table[i])
        padded == [i \in 0..(TABLE_LEN - 1) |->
                      IF i + 128 \in DOMAIN table THEN table[i + 128] ELSE None]
        invalid == \E i \in DOMAIN padded :
                      IsSome(padded[i]) /\ IsNone(char_from_u32(Unwrap(padded[i])))
    IN IF invalid
       THEN None
       ELSE Some([code_page |-> code_page,
                  table |-> IF complete
                            THEN Complete([i \in DOMAIN padded |-> Unwrap(padded[i])])
                            ELSE Incomplete(padded)])

\* Mutant: the table is classified before the patch is applied
parse_table_classify_raw(code_page, raw_table, patch) ==
    LET table == apply_patch(code_page, raw_table, patch)
        complete == \A i \in DOMAIN raw_table : IsSome(raw_table[i])
        len == Cardinality(DOMAIN table)
        skipped == [i \in 0..(len - 129) |-> table[i + 128]]
        invalid == \E i \in DOMAIN skipped :
                      IsSome(skipped[i]) /\ IsNone(char_from_u32(Unwrap(skipped[i])))
    IN IF invalid \/ Cardinality(DOMAIN skipped) # TABLE_LEN
       THEN None
       ELSE Some([code_page |-> code_page,
                  table |-> IF complete
                            THEN Complete([i \in DOMAIN skipped |-> Unwrap(skipped[i])])
                            ELSE Incomplete(skipped)])

\* The closure parse_code_tables maps over the raw tables: None when it
\* panics (char::from_u32(i).unwrap() on the slots after the first 128, or
\* try_into().unwrap() into an array of 128), else Some((code_page, table)).
parse_table(code_page, raw_table, patch) ==
    LET table == apply_patch(code_page, raw_table, patch)
        complete == \A i \in DOMAIN table : IsSome(table[i])
        len == Cardinality(DOMAIN table)
        skipped == [i \in 0..(len - 129) |-> table[i + 128]]
        invalid == \E i \in DOMAIN skipped :
                      IsSome(skipped[i]) /\ IsNone(char_from_u32(Unwrap(skipped[i])))
    IN IF invalid \/ Cardinality(DOMAIN skipped) # TABLE_LEN
       THEN None
       ELSE Some([code_page |-> code_page,
                  table |-> IF complete
                            THEN Complete([i \in DOMAIN skipped |-> Unwrap(skipped[i])])
                            ELSE Incomplete(skipped)])

\* Every order in which the HashMap of raw tables may be iterated
Orders(S) ==
    {o \in [1..Cardinality(S) -> S] : \A i, j \in DOMAIN o : i # j => o[i] # o[j]}

\* Mutant: the tables stay in the order the HashMap was iterated in
unsorted(tables) == tables

\* tables.sort_unstable_by_key(|(code_page, _table)| *code_page)
sort_unstable_by_key(tables) ==
    CHOOSE sorted \in [DOMAIN tables -> {tables[i] : i \in DOMAIN tables}] :
        /\ \A i, j \in DOMAIN sorted : i < j => sorted[i].code_page <= sorted[j].code_page
        /\ \A t \in {tables[i] : i \in DOMAIN tables} :
              Cardinality({i \in DOMAIN sorted : sorted[i] = t})
                  = Cardinality({i \in DOMAIN tables : tables[i] = t})

\* Mutant: the byte of an entry is the slot index, without the + 0x80
encoding_entries_index(table) ==
    LET defined == IF table.tag = "Complete"
                   THEN [i \in DOMAIN table.table |-> Some(table.table[i])]
                   ELSE table.table
        slots == SelectSeq([k \in 1..TABLE_LEN |-> k - 1], LAMBDA i : IsSome(defined[i]))
    IN [k \in DOMAIN slots |-> <<Unwrap(defined[slots[k]]), slots[k]>>]

\* The map.entry(c, i) calls of write_encoding, in order: the defined slots
\* in ascending index, each as <<c, i + 0x80>>
encoding_entries(table) ==
    LET defined == IF table.tag = "Complete"
                   THEN [i \in DOMAIN table.table |-> Some(table.table[i])]
                   ELSE table.table
        slots == SelectSeq([k \in 1..TABLE_LEN |-> k - 1], LAMBDA i : IsSome(defined[i]))
    IN [k \in DOMAIN slots |-> <<Unwrap(defined[slots[k]]), slots[k] + 128>>]

\* The map of entries lo..hi of a list of entries, an earlier entry taking
\* precedence over a later one with the same key
RECURSIVE entries_range_to_map(_, _, _)
entries_range_to_map(entries, lo, hi) ==
    IF lo > hi THEN <<>>
    ELSE IF lo = hi THEN (entries[lo][1] :> entries[lo][2])
    ELSE LET mid == (lo + hi) \div 2
         IN entries_range_to_map(entries, lo, mid)
                @@ entries_range_to_map(entries, mid + 1, hi)

\* The map holding entries k.. of a list of entries without a repeated key
entries_to_map(entries, k) ==
    entries_range_to_map(entries, k, Len(entries))

\* Mutant: a key entered twice keeps its last value
RECURSIVE entries_range_to_map_last(_, _, _)
entries_range_to_map_last(entries, lo, hi) ==
    IF lo > hi THEN <<>>
    ELSE IF lo = hi THEN (entries[lo][1] :> entries[lo][2])
    ELSE LET mid == (lo + hi) \div 2
         IN entries_range_to_map_last(entries, mid + 1, hi)
                @@ entries_range_to_map_last(entries, lo, mid)

entries_to_map_last(entries, k) ==
    entries_range_to_map_last(entries, 1, k)

build_last_wins(entries) == Some(entries_to_map_last(entries, Len(entries)))

\* Mutant: a key entered twice keeps its first value
build_first_wins(entries) == Some(entries_to_map(entries, 1))

\* phf_codegen::Map::build: panics (None) when a key was entered twice, else
\* the map of the entries
build(entries) ==
    IF Cardinality({entries[k][1] : k \in DOMAIN entries}) # Len(entries)
    THEN None
    ELSE Some(entries_to_map(entries, 1))

\* write_decoding: pub static DECODING_TABLE_CP{code_page}
write_decoding(code_page, table) ==
    [item |-> "DECODING_TABLE", code_page |-> code_page, value |-> table]

\* write_encoding: pub static ENCODING_TABLE_CP{code_page}; None when
\* map.build() panics
write_encoding(code_page, table) ==
    LET map == build(encoding_entries(table))
    IN IF IsNone(map) THEN None
       ELSE Some([item |-> "ENCODING_TABLE", code_page |-> code_page, value |-> Unwrap(map)])

\* Mutant: every registry entry is written as Complete
write_decoding_table_cp_map_complete(tables) ==
    LET entries == [k \in DOMAIN tables |->
                       <<tables[k].code_page,
                         [ty |-> "Complete", ref |-> tables[k].code_page]>>]
        map == build(entries)
    IN IF IsNone(map) THEN None
       ELSE Some([item |-> "DECODING_TABLE_CP_MAP", code_page |-> 0, value |-> Unwrap(map)])

\* write_decoding_table_cp_map: code_page -> "{ty}(&DECODING_TABLE_CP{code_page})"
write_decoding_table_cp_map(tables) ==
    LET entries == [k \in DOMAIN tables |->
                       <<tables[k].code_page,
                         [ty |-> tables[k].table.tag, ref |-> tables[k].code_page]>>]
        map == build(entries)
    IN IF IsNone(map) THEN None
       ELSE Some([item |-> "DECODING_TABLE_CP_MAP", code_page |-> 0, value |-> Unwrap(map)])

\* write_encoding_table_cp_map: code_page -> "&ENCODING_TABLE_CP{code_page}"
write_encoding_table_cp_map(tables) ==
    LET entries == [k \in DOMAIN tables |-> <<tables[k].code_page, tables[k].code_page>>]
        map == build(entries)
    IN IF IsNone(map) THEN None
       ELSE Some([item |-> "ENCODING_TABLE_CP_MAP", code_page |-> 0, value |-> Unwrap(map)])

\* --- the generated module, as the codec sees it ---

\* The value of the static `name` (of codepage code_page) in a generated module
Static(module, name, code_page) ==
    LET found == SelectSeq(module, LAMBDA it : it.item = name /\ it.code_page = code_page)
    IN IF Len(found) = 0 THEN None ELSE Some(found[1].value)

\* Mutant: a codepage the registry lacks falls back to the first codepage
DECODING_TABLE_CP_MAP_get_or_first(module, code_page) ==
    LET map == Unwrap(Static(module, "DECODING_TABLE_CP_MAP", 0))
        first == CHOOSE cp \in DOMAIN map : \A other \in DOMAIN map : cp <= other
        entry == IF code_page \in DOMAIN map THEN map[code_page] ELSE map[first]
    IN Some([tag |-> entry.ty,
             table |-> Unwrap(Static(module, "DECODING_TABLE", entry.ref)).table])

\* DECODING_TABLE_CP_MAP.get(&code_page), the reference followed
DECODING_TABLE_CP_MAP_get(module, code_page) ==
    LET entry == get(Unwrap(Static(module, "DECODING_TABLE_CP_MAP", 0)), code_page)
    IN IF IsNone(entry) THEN None
       ELSE Some([tag |-> Unwrap(entry).ty,
                  table |-> Unwrap(Static(module, "DECODING_TABLE", Unwrap(entry).ref)).table])

\* ENCODING_TABLE_CP_MAP.get(&code_page), the reference followed
ENCODING_TABLE_CP_MAP_get(module, code_page) ==
    LET entry == get(Unwrap(Static(module, "ENCODING_TABLE_CP_MAP", 0)), code_page)
    IN IF IsNone(entry) THEN None
       ELSE Static(module, "ENCODING_TABLE", Unwrap(entry))

\* ------------------------------------------------------------------------
\* Datasets handed to the generator.  Slot i of a raw table holds RawBase(i)
\* unless stated otherwise: the identity below 128, U+0100 + (i - 128) above.
RawBase(i) == IF i < 128 THEN Some(i) ELSE Some(128 + i)

RawTable(len, override) ==
    [i \in 0..(len - 1) |-> IF i \in DOMAIN override THEN override[i] ELSE RawBase(i)]

\* cp437: slots 0, 128 and 129 vary (absent, a surrogate, ASCII, twice the
\* same character)
RawTables437 ==
    { RawTable(256, o) :
        o \in [{0, 128, 129} ->
                  {None, Some(0), Some(65), Some(233), Some(234), Some(55296)}] }

\* cp874: slot 128 absent, defined or a surrogate; or a table that is one
\* slot short, or shorter than the 128 slots skipped
RawTables874 ==
    { RawTable(256, o) : o \in [{128} -> {None, Some(8364), Some(55296)}] }
        \cup { RawTable(255, <<>>), RawTable(127, <<>>) }

Datasets437 ==
    { t \in RawTables437 : t[0] \in {None, Some(0), Some(55296)}
                           /\ t[128] \notin {Some(0), Some(55296)}
                           /\ t[129] \in {None, Some(233), Some(234)} }

\* The patch file: for cp437 any of slots 0, 128, 129 set to U+00EA, and
\* possibly an entry for cp932, which the raw dataset lacks; or a patch of
\* cp437 whose slot key is 256
PatchTables == UNION {[S -> {234}] : S \in SUBSET {0, 128, 129}}

Patches ==
    {<<>>}
        \cup {[cp \in {437} |-> t] : t \in PatchTables}
        \cup {[cp \in {932} |-> [i \in {128} |-> 234]]}
        \cup {[cp \in {437, 932} |-> IF cp = 437 THEN t ELSE [i \in {128} |-> 234]] :
                t \in PatchTables}
        \cup {[cp \in {437} |-> [i \in {256} |-> 234]]}

InitGen ==
    /\ decoder = NoDecoder
    /\ encoder = NoEncoder
    /\ op = "idle"
    /\ input = <<>>
    /\ result = <<>>
    /\ local_ret = <<>>
    /\ threads = <<>>
    /\ \E t437 \in Datasets437, t874 \in RawTables874, patch \in Patches,
          patch_file \in BOOLEAN :
          /\ ~patch_file => patch = <<>>
          /\ dataset = [tables |-> [cp \in {437, 874} |-> IF cp = 437 THEN t437 ELSE t874],
                        patch |-> patch, patch_file |-> patch_file]
    /\ gen_pc = "start"
    /\ code_tables = <<>>
    /\ output = <<>>
    /\ generated = None

\* generate_tables: let code_tables = parse_code_tables()?
ParseCodeTables ==
    /\ gen_pc = "start"
    /\ LET raw_patch == open_patch_file(dataset)
           patch == IF IsNone(raw_patch) THEN None ELSE parse_patch_keys(Unwrap(raw_patch))
       IN IF IsNone(raw_patch)
          THEN /\ gen_pc' = "failed"
               /\ UNCHANGED code_tables
          ELSE IF IsNone(patch)
          THEN /\ gen_pc' = "panicked"
               /\ UNCHANGED code_tables
          ELSE \E order \in Orders(DOMAIN dataset.tables) :
                  LET parsed == [k \in DOMAIN order |->
                                    parse_table(order[k], dataset.tables[order[k]],
                                                Unwrap(patch))]
                  IN IF \E k \in DOMAIN parsed : IsNone(parsed[k])
                     THEN /\ gen_pc' = "panicked"
                          /\ UNCHANGED code_tables
                     ELSE /\ gen_pc' = "parsed"
                          /\ code_tables' = sort_unstable_by_key(
                                                [k \in DOMAIN parsed |-> Unwrap(parsed[k])])
    /\ UNCHANGED <<dataset, output, generated>>
    /\ UNCHANGED codec_vars

\* generate_tables: write_header, then write_decoding for every codepage
WriteDecoding ==
    /\ gen_pc = "parsed"
    /\ output' = output \o [k \in DOMAIN code_tables |->
                               write_decoding(code_tables[k].code_page, code_tables[k].table)]
    /\ gen_pc' = "decoding"
    /\ UNCHANGED <<dataset, code_tables, generated>>
    /\ UNCHANGED codec_vars

\* generate_tables: write_encoding for every codepage, up to the first one
\* whose map.build() panics
WriteEncoding ==
    /\ gen_pc = "decoding"
    /\ LET items == [k \in DOMAIN code_tables |->
                        write_encoding(code_tables[k].code_page, code_tables[k].table)]
           failed == {k \in DOMAIN items : IsNone(items[k])}
       IN IF failed = {}
          THEN /\ output' = output \o [k \in DOMAIN items |-> Unwrap(items[k])]
               /\ gen_pc' = "encoding"
          ELSE LET first == CHOOSE k \in failed : \A j \in failed : k <= j
               IN /\ output' = output \o [k \in 1..(first - 1) |-> Unwrap(items[k])]
                  /\ gen_pc' = "panicked"
    /\ UNCHANGED <<dataset, code_tables, generated>>
    /\ UNCHANGED codec_vars

\* generate_tables: write_decoding_table_cp_map
WriteDecodingTableCpMap ==
    /\ gen_pc = "encoding"
    /\ LET item == write_decoding_table_cp_map(code_tables)
       IN IF IsNone(item)
          THEN gen_pc' = "panicked" /\ UNCHANGED output
          ELSE gen_pc' = "decoding_cp_map" /\ output' = Append(output, Unwrap(item))
    /\ UNCHANGED <<dataset, code_tables, generated>>
    /\ UNCHANGED codec_vars

\* generate_tables: write_encoding_table_cp_map
WriteEncodingTableCpMap ==
    /\ gen_pc = "decoding_cp_map"
    /\ LET item == write_encoding_table_cp_map(code_tables)
       IN IF IsNone(item)
          THEN gen_pc' = "panicked" /\ UNCHANGED output
          ELSE gen_pc' = "encoding_cp_map" /\ output' = Append(output, Unwrap(item))
    /\ UNCHANGED <<dataset, code_tables, generated>>
    /\ UNCHANGED codec_vars

\* generate_tables: write_footer, then assert_eq_or_update stores the output
\* as src/code_table.generated.rs
Snapshot ==
    /\ gen_pc = "encoding_cp_map"
    /\ generated' = Some(output)
    /\ gen_pc' = "done"
    /\ UNCHANGED <<dataset, code_tables, output>>
    /\ UNCHANGED codec_vars

NextGen ==
    \/ ParseCodeTables
    \/ WriteDecoding
    \/ WriteEncoding
    \/ WriteDecodingTableCpMap
    \/ WriteEncodingTableCpMap
    \/ Snapshot

SpecGen == InitGen /\ [][NextGen]_vars

\* ------------------------------------------------------------------------
\* The build script (build.rs): the same generator without a patch file,
\* writing through a BufWriter to $OUT_DIR/code_table.rs.  `output` is what
\* was handed to the BufWriter, `generated` the file: None until
\* File::create, then the part of `output` that has reached it.

\* The closure of build.rs's parse_code_tables: no patch is applied
build_parse_table(code_page, raw_table) ==
    parse_table(code_page, raw_table, <<>>)

\* The file after `written` was handed to the BufWriter: the buffer is
\* written out when it is full, which depends on sizes not modelled
BufWriter_write(file, written, full) ==
    IF full THEN Some(written) ELSE file

InitBuild ==
    /\ decoder = NoDecoder
    /\ encoder = NoEncoder
    /\ op = "idle"
    /\ input = <<>>
    /\ result = <<>>
    /\ local_ret = <<>>
    /\ threads = <<>>
    /\ \E t437 \in Datasets437, t874 \in RawTables874 :
          dataset = [tables |-> [cp \in {437, 874} |-> IF cp = 437 THEN t437 ELSE t874],
                     patch |-> <<>>, patch_file |-> TRUE]
    /\ gen_pc = "start"
    /\ code_tables = <<>>
    /\ output = <<>>
    /\ generated = None

\* build.rs generate_tables: let code_tables = parse_code_tables()?
Build_ParseCodeTables ==
    /\ gen_pc = "start"
    /\ \E order \in Orders(DOMAIN dataset.tables) :
          LET parsed == [k \in DOMAIN order |->
                            build_parse_table(order[k], dataset.tables[order[k]])]
          IN IF \E k \in DOMAIN parsed : IsNone(parsed[k])
             THEN /\ gen_pc' = "panicked"
                  /\ UNCHANGED code_tables
             ELSE /\ gen_pc' = "parsed"
                  /\ code_tables' = sort_unstable_by_key(
                                        [k \in DOMAIN parsed |-> Unwrap(parsed[k])])
    /\ UNCHANGED <<dataset, output, generated>>
    /\ UNCHANGED codec_vars

\* build.rs generate_tables: let mut output = open_output()?, File::create
\* makes the file or truncates it
Build_OpenOutput ==
    /\ gen_pc = "parsed"
    /\ generated' = Some(<<>>)
    /\ gen_pc' = "opened"
    /\ UNCHANGED <<dataset, code_tables, output>>
    /\ UNCHANGED codec_vars

\* build.rs generate_tables: write_header, then write_decoding for every
\* codepage
Build_WriteDecoding ==
    /\ gen_pc = "opened"
    /\ output' = output \o [k \in DOMAIN code_tables |->
                               write_decoding(code_tables[k].code_page, code_tables[k].table)]
    /\ \E full \in BOOLEAN : generated' = BufWriter_write(generated, output', full)
    /\ gen_pc' = "decoding"
    /\ UNCHANGED <<dataset, code_tables>>
    /\ UNCHANGED codec_vars

\* build.rs generate_tables: write_encoding for every codepage, up to the
\* first one whose map.build() panics; the unwinding drops the BufWriter,
\* which writes its buffer out
Build_WriteEncoding ==
    /\ gen_pc = "decoding"
    /\ LET items == [k \in DOMAIN code_tables |->
                        write_encoding(code_tables[k].code_page, code_tables[k].table)]
           failed == {k \in DOMAIN items : IsNone(items[k])}
       IN IF failed = {}
          THEN /\ output' = output \o [k \in DOMAIN items |-> Unwrap(items[k])]
               /\ \E full \in BOOLEAN : generated' = BufWriter_write(generated, output', full)
               /\ gen_pc' = "encoding"
          ELSE LET first == CHOOSE k \in failed : \A j \in failed : k <= j
               IN /\ output' = output \o [k \in 1..(first - 1) |-> Unwrap(items[k])]
                  /\ generated' = Some(output')
                  /\ gen_pc' = "panicked"
    /\ UNCHANGED <<dataset, code_tables>>
    /\ UNCHANGED codec_vars

\* build.rs generate_tables: write_decoding_table_cp_map
Build_WriteDecodingTableCpMap ==
    /\ gen_pc = "encoding"
    /\ LET item == write_decoding_table_cp_map(code_tables)
       IN IF IsNone(item)
          THEN gen_pc' = "panicked" /\ UNCHANGED output /\ generated' = Some(output)
          ELSE /\ gen_pc' = "decoding_cp_map"
               /\ output' = Append(output, Unwrap(item))
               /\ \E full \in BOOLEAN : generated' = BufWriter_write(generated, output', full)
    /\ UNCHANGED <<dataset, code_tables>>
    /\ UNCHANGED codec_vars

\* build.rs generate_tables: write_encoding_table_cp_map
Build_WriteEncodingTableCpMap ==
    /\ gen_pc = "decoding_cp_map"
    /\ LET item == write_encoding_table_cp_map(code_tables)
       IN IF IsNone(item)
          THEN gen_pc' = "panicked" /\ UNCHANGED output /\ generated' = Some(output)
          ELSE /\ gen_pc' = "encoding_cp_map"
               /\ output' = Append(output, Unwrap(item))
               /\ \E full \in BOOLEAN : generated' = BufWriter_write(generated, output', full)
    /\ UNCHANGED <<dataset, code_tables>>
    /\ UNCHANGED codec_vars

\* build.rs generate_tables: write_footer and Ok(()); the BufWriter is
\* dropped and writes its buffer out
Build_WriteFooter ==
    /\ gen_pc = "encoding_cp_map"
    /\ generated' = Some(output)
    /\ gen_pc' = "done"
    /\ UNCHANGED <<dataset, code_tables, output>>
    /\ UNCHANGED codec_vars

NextBuild ==
    \/ Build_ParseCodeTables
    \/ Build_OpenOutput
    \/ Build_WriteDecoding
    \/ Build_WriteEncoding
    \/ Build_WriteDecodingTableCpMap
    \/ Build_WriteEncodingTableCpMap
    \/ Build_WriteFooter

SpecBuild == InitBuild /\ [][NextBuild]_vars

\* ------------------------------------------------------------------------
\* Lookups in the registries of the shipped module.  The dataset the crate
\* ships (assets/code_tables.json) is not part of the sources: its codepages
\* are taken from the specification, which names the ten that the test
\* windows_codepages_coverage_test looks up.

\* Everything generate_tables writes for the parsed tables when no
\* map.build() panics
generate_tables(tables) ==
    [k \in DOMAIN tables |-> write_decoding(tables[k].code_page, tables[k].table)]
        \o [k \in DOMAIN tables |->
               Unwrap(write_encoding(tables[k].code_page, tables[k].table))]
        \o << Unwrap(write_decoding_table_cp_map(tables)),
              Unwrap(write_encoding_table_cp_map(tables)) >>

WINDOWS_USED_CODEPAGES == {437, 737, 775, 850, 852, 855, 857, 862, 866, 874}

\* The supported codepages in ascending order
ShippedCodePages == <<437, 737, 775, 850, 852, 855, 857, 862, 866, 874>>

\* The codepages whose last slot may be undefined in the shipped dataset
ShippedSparse == {852, 857, 874}

\* The shipped raw tables: 256 slots each, cp852, cp857 and cp874 with or
\* without an undefined last slot
ShippedDatasets ==
    { [cp \in WINDOWS_USED_CODEPAGES |->
          RawTable(256, IF cp \in undefined THEN [i \in {255} |-> None] ELSE <<>>)] :
      undefined \in SUBSET ShippedSparse }

\* The ids looked up: the supported ones, 932 and other unsupported ones
LookupCodePages == WINDOWS_USED_CODEPAGES \cup {0, 720, 932, 65535}

InitRegistry ==
    /\ decoder = NoDecoder
    /\ encoder = NoEncoder
    /\ op = "idle"
    /\ input = <<>>
    /\ result = <<>>
    /\ local_ret = <<>>
    /\ threads = <<>>
    /\ \E tables \in ShippedDatasets :
          /\ dataset = [tables |-> tables, patch |-> <<>>, patch_file |-> TRUE]
          /\ code_tables = [k \in DOMAIN ShippedCodePages |->
                               Unwrap(parse_table(ShippedCodePages[k],
                                                  tables[ShippedCodePages[k]], <<>>))]
    /\ output = generate_tables(code_tables)
    /\ generated = Some(output)
    /\ gen_pc = "done"

Call_DECODING_TABLE_CP_MAP_get ==
    \E code_page \in LookupCodePages :
        Returned("DECODING_TABLE_CP_MAP.get", code_page,
                 DECODING_TABLE_CP_MAP_get(Unwrap(generated), code_page), <<>>)

Call_ENCODING_TABLE_CP_MAP_get ==
    \E code_page \in LookupCodePages :
        Returned("ENCODING_TABLE_CP_MAP.get", code_page,
                 ENCODING_TABLE_CP_MAP_get(Unwrap(generated), code_page), <<>>)

NextRegistry ==
    \/ Call_DECODING_TABLE_CP_MAP_get
    \/ Call_ENCODING_TABLE_CP_MAP_get
    \/ Drop

SpecRegistry == InitRegistry /\ [][NextRegistry]_vars

\* ------------------------------------------------------------------------
\* Threads sharing the generated tables.  The sequence operations borrow the
\* tables (&[char; 128], &[Option<char>; 128], &OEMCPHashMap<char, u8>) and
\* keep their buffer in a local; a thread advances by one element of its
\* input at a time, in any interleaving with the other threads.

Threads == {"t1", "t2"}

\* A thread outside any call
IdleThread ==
    [pc |-> "idle", op |-> "", input |-> <<>>, ret |-> <<>>,
     result |-> None, earlier |-> None]

\* A call of `name` with `arg` is entered: let mut ret = String::new() /
\* Vec::new(), or the empty collection that collect() fills
start_call(name, arg) ==
    [pc |-> "running", op |-> name, input |-> arg, ret |-> <<>>,
     result |-> None, earlier |-> None]

\* The expression pushed in the for loop of
\* decode_string_incomplete_table_checked: None when `?` leaves the function
decode_string_incomplete_table_checked_body(byte, decoding_table) ==
    IF byte < ASCII_LIMIT
    THEN Some(u8_as_char(byte))
    ELSE decoding_table[BitAnd(byte, 127)]

\* The expression pushed in the for loop of encode_string_checked: None when
\* `?` leaves the function
encode_string_checked_body(c, encoding_table) ==
    IF c < ASCII_LIMIT
    THEN Some(char_as_u8(c))
    ELSE get(encoding_table, c)

\* What one element of the input contributes in the call of `name`
pushed(name, item, table_type, encoding_table) ==
    CASE name = "decode_string_complete_table" ->
            Some(decode_string_complete_table_closure(item, table_type.table))
      [] name = "decode_string_incomplete_table_checked" ->
            decode_string_incomplete_table_checked_body(item, table_type.table)
      [] name = "decode_string_incomplete_table_lossy" ->
            Some(decode_string_incomplete_table_lossy_closure(item, table_type.table))
      [] name = "encode_string_checked" ->
            encode_string_checked_body(item, encoding_table)
      [] name = "encode_string_lossy" ->
            Some(encode_string_lossy_closure(item, encoding_table))

CheckedOps == {"decode_string_incomplete_table_checked", "encode_string_checked"}

\* One turn of the loop of the thread's call: the next element is pushed to
\* the local buffer, or the call returns (at the end of the input, or with
\* None through `?`)
thread_step(thread, table_type, encoding_table) ==
    LET i == Len(thread.ret) + 1
    IN IF i > Len(thread.input)
       THEN [thread EXCEPT !.pc = "returned",
                           !.result = IF thread.op \in CheckedOps
                                      THEN Some(thread.ret) ELSE thread.ret]
       ELSE LET c == pushed(thread.op, thread.input[i], table_type, encoding_table)
            IN IF IsNone(c)
               THEN [thread EXCEPT !.pc = "returned", !.result = None]
               ELSE [thread EXCEPT !.ret = Append(@, Unwrap(c))]

\* The raw tables the shared module is generated from: a full cp437 and a
\* cp874 whose slot 128 is undefined
SharedDataset ==
    [cp \in {437, 874} |->
        RawTable(256, IF cp = 874 THEN [i \in {128} |-> None] ELSE <<>>)]

\* The tables parsed from SharedDataset, in ascending codepage order, and the
\* module generated from them
SharedTables ==
    sort_unstable_by_key(
        [k \in 1..2 |->
            Unwrap(parse_table(<<874, 437>>[k], SharedDataset[<<874, 437>>[k]], <<>>))])
SharedModule == generate_tables(SharedTables)

\* Inputs of the threads: an ASCII byte and bytes 0x80, 0x81; 'A' and U+0100,
\* the character of slot 128
SharedByteSeqs == SeqsUpTo({65, 128, 129}, MaxShared)
SharedStrings == SeqsUpTo({65, 256}, MaxShared)

\* The registry lookups a thread may make
LookupOps == {"DECODING_TABLE_CP_MAP.get", "ENCODING_TABLE_CP_MAP.get"}
SharedLookups == LookupOps \X {437, 932}

\* The calls a thread may make with the shared tables
SharedCalls(table_type) ==
    (IF table_type.tag = "Complete"
     THEN {"decode_string_complete_table"} \X SharedByteSeqs
     ELSE {"decode_string_incomplete_table_checked",
           "decode_string_incomplete_table_lossy"} \X SharedByteSeqs)
    \cup ({"encode_string_checked", "encode_string_lossy"} \X SharedStrings)

InitShared ==
    /\ op = "idle"
    /\ input = <<>>
    /\ result = <<>>
    /\ local_ret = <<>>
    /\ threads = [t \in Threads |-> IdleThread]
    /\ dataset = [tables |-> SharedDataset, patch |-> <<>>, patch_file |-> TRUE]
    /\ code_tables = SharedTables
    /\ output = SharedModule
    /\ generated = Some(output)
    /\ gen_pc = "done"
    /\ \E code_page \in {437, 874} :
          /\ decoder = Unwrap(DECODING_TABLE_CP_MAP_get(output, code_page))
          /\ encoder = Unwrap(ENCODING_TABLE_CP_MAP_get(output, code_page))

\* A thread enters a sequence operation on the shared tables
Thread_Call(t) ==
    /\ threads[t].pc = "idle"
    /\ \E call \in SharedCalls(decoder) \cup SharedLookups :
          threads' = [threads EXCEPT ![t] = start_call(call[1], call[2])]
    /\ UNCHANGED <<decoder, encoder, op, input, result, local_ret>>
    /\ UNCHANGED gen_vars

\* Mutant: the buffer is one static shared by every call in progress
Thread_Step_shared_ret(t) ==
    /\ threads[t].pc = "running"
    /\ threads[t].op \notin LookupOps
    /\ LET after == thread_step(threads[t], decoder, encoder)
       IN threads' = [u \in Threads |->
                         IF u = t THEN after
                         ELSE IF threads[u].pc = "running"
                              THEN [threads[u] EXCEPT !.ret = after.ret]
                              ELSE threads[u]]
    /\ UNCHANGED <<decoder, encoder, op, input, result, local_ret>>
    /\ UNCHANGED gen_vars

\* Mutant: a lossy decoder stores the replacement of an undefined byte in the
\* table
Thread_Step_memoise(t) ==
    /\ threads[t].pc = "running"
    /\ threads[t].op \notin LookupOps
    /\ threads' = [threads EXCEPT ![t] = thread_step(@, decoder, encoder)]
    /\ decoder' = IF /\ threads[t].op = "decode_string_incomplete_table_lossy"
                     /\ Len(threads[t].ret) < Len(threads[t].input)
                     /\ threads[t].input[Len(threads[t].ret) + 1] >= ASCII_LIMIT
                  THEN [decoder EXCEPT
                           !.table[BitAnd(threads[t].input[Len(threads[t].ret) + 1], 127)] =
                               Some(threads'[t].ret[Len(threads'[t].ret)])]
                  ELSE decoder
    /\ UNCHANGED <<encoder, op, input, result, local_ret>>
    /\ UNCHANGED gen_vars

\* A thread takes one turn of its loop; the tables are only read
Thread_Step(t) ==
    /\ threads[t].pc = "running"
    /\ threads[t].op \notin LookupOps
    /\ threads' = [threads EXCEPT ![t] = thread_step(@, decoder, encoder)]
    /\ UNCHANGED <<decoder, encoder, op, input, result, local_ret>>
    /\ UNCHANGED gen_vars

\* A thread's lookup in a registry of the generated module returns
Thread_Lookup(t) ==
    /\ threads[t].pc = "running"
    /\ threads[t].op \in LookupOps
    /\ threads' = [threads EXCEPT ![t] =
                      [@ EXCEPT !.pc = "returned",
                                !.result =
                                    IF threads[t].op = "DECODING_TABLE_CP_MAP.get"
                                    THEN DECODING_TABLE_CP_MAP_get(Unwrap(generated),
                                                                   threads[t].input)
                                    ELSE ENCODING_TABLE_CP_MAP_get(Unwrap(generated),
                                                                   threads[t].input)]]
    /\ UNCHANGED <<decoder, encoder, op, input, result, local_ret>>
    /\ UNCHANGED gen_vars

\* A thread whose call has returned makes the same call again, keeping the
\* earlier result to compare
Thread_CallAgain(t) ==
    /\ threads[t].pc = "returned"
    /\ IsNone(threads[t].earlier)
    /\ threads' = [threads EXCEPT ![t] =
                      [start_call(@.op, @.input) EXCEPT !.earlier = Some(threads[t].result)]]
    /\ UNCHANGED <<decoder, encoder, op, input, result, local_ret>>
    /\ UNCHANGED gen_vars

\* A thread drops what its call returned
Thread_Drop(t) ==
    /\ threads[t].pc = "returned"
    /\ threads' = [threads EXCEPT ![t] = IdleThread]
    /\ UNCHANGED <<decoder, encoder, op, input, result, local_ret>>
    /\ UNCHANGED gen_vars

NextShared ==
    \E t \in Threads :
        \/ Thread_Call(t)
        \/ Thread_Step(t)
        \/ Thread_Lookup(t)
        \/ Thread_CallAgain(t)
        \/ Thread_Drop(t)

SpecShared == InitShared /\ [][NextShared]_vars

\* ------------------------------------------------------------------------
\* Properties of the decoder

CharDecodeOps ==
    {"decode_char_complete_table", "decode_char_incomplete_table_checked",
     "decode_char_incomplete_table_lossy", "TableType::decode_char_checked"}
StringDecodeOps ==
    {"decode_string_complete_table", "decode_string_incomplete_table_checked",
     "decode_string_incomplete_table_lossy", "TableType::decode_string_checked",
     "TableType::decode_string_lossy"}
OptionDecodeOps ==
    {"decode_char_incomplete_table_checked", "TableType::decode_char_checked",
     "decode_string_incomplete_table_checked", "TableType::decode_string_checked"}

\* The slot of the current table that byte b >= 128 addresses, as an Option
SlotOf(b) ==
    IF decoder.tag = "Complete" THEN Some(decoder.table[b - 128]) ELSE decoder.table[b - 128]

\* Byte b addresses an undefined slot of the current table
Undefined(b) == b >= 128 /\ IsNone(SlotOf(b))

\* The character the lossy decoders owe for byte b
LossyChar(b) ==
    IF b < 128 THEN b ELSE IF IsNone(SlotOf(b)) THEN 65533 ELSE Unwrap(SlotOf(b))

\* C1: whatever the table (Complete or Incomplete, any contents), every
\* decode operation maps a byte b in 0..127 to the code point b: the
\* single-byte operations return b (Some(b) when checked), the sequence
\* operations put b at the position of b in every result they return, and a
\* sequence of such bytes alone is always decoded, to itself.
C1_AsciiDecodesToItself ==
    /\ (op \in CharDecodeOps /\ input < 128) =>
          result = IF op \in OptionDecodeOps THEN Some(input) ELSE input
    /\ (op \in StringDecodeOps /\ op \notin OptionDecodeOps) =>
          /\ Len(result) = Len(input)
          /\ \A i \in 1..Len(input) : input[i] < 128 => result[i] = input[i]
    /\ (op \in StringDecodeOps /\ op \in OptionDecodeOps) =>
          /\ IsSome(result) =>
                /\ Len(Unwrap(result)) = Len(input)
                /\ \A i \in 1..Len(input) : input[i] < 128 => Unwrap(result)[i] = input[i]
          /\ (\A i \in 1..Len(input) : input[i] < 128) => result = Some(input)

\* Byte 127 is decoded to U+007F by a table whose slot 127 is undefined.
C1_Witness ==
    /\ op = "decode_char_incomplete_table_checked"
    /\ input = 127
    /\ result = Some(127)
    /\ IsNone(decoder.table[127])

\* C3: decode_sequence_checked returns no result if and only if the table is
\* Incomplete and some byte of the sequence addresses an undefined slot; it
\* then returns None and not the prefix decoded so far (Some of a prefix
\* would be a result), and on a Complete table it always returns a result,
\* one character per byte.
C3_CheckedDecodeAllOrNothing ==
    (op \in {"decode_string_incomplete_table_checked", "TableType::decode_string_checked"}) =>
        /\ IsNone(result) <=>
              (decoder.tag = "Incomplete" /\ \E i \in 1..Len(input) : Undefined(input[i]))
        /\ IsSome(result) => Len(Unwrap(result)) = Len(input)

\* A prefix was decoded before the undefined byte was met, and None is returned.
C3_Witness ==
    /\ op = "decode_string_incomplete_table_checked"
    /\ Len(local_ret) = 2
    /\ Len(input) = 3
    /\ result = None

\* C4 (as stated): decode_sequence_lossy returns as many characters as there
\* are bytes, the i-th one being the lossy decoding of the i-th byte, and
\* U+FFFD stands at a position if and only if the byte there addresses an
\* undefined slot.
C4_Original ==
    (op \in {"decode_string_complete_table", "decode_string_incomplete_table_lossy",
             "TableType::decode_string_lossy"}) =>
        /\ Len(result) = Len(input)
        /\ \A i \in 1..Len(input) :
              /\ result[i] = LossyChar(input[i])
              /\ result[i] = 65533 <=> Undefined(input[i])

\* C4 (amended): decode_sequence_lossy returns as many characters as there
\* are bytes; the i-th one is U+FFFD where the i-th byte addresses an
\* undefined slot and the mapped character elsewhere, so that U+FFFD stands
\* only where the slot is undefined or itself holds U+FFFD; on an Incomplete
\* table the i-th character is decode_byte_lossy of the i-th byte.
C4_LossyDecodeCharByChar ==
    (op \in {"decode_string_complete_table", "decode_string_incomplete_table_lossy",
             "TableType::decode_string_lossy"}) =>
        /\ Len(result) = Len(input)
        /\ \A i \in 1..Len(input) :
              /\ result[i] = LossyChar(input[i])
              /\ Undefined(input[i]) => result[i] = 65533
              /\ result[i] = 65533 =>
                    (Undefined(input[i]) \/ SlotOf(input[i]) = Some(65533))
              /\ decoder.tag = "Incomplete" =>
                    result[i] = decode_char_incomplete_table_lossy(input[i], decoder.table)

\* A sequence with an undefined byte between two defined ones is decoded.
C4_Witness ==
    /\ op = "decode_string_incomplete_table_lossy"
    /\ Len(input) = 3
    /\ ~Undefined(input[1]) /\ Undefined(input[2]) /\ ~Undefined(input[3])
    /\ result[2] = 65533 /\ result[1] # 65533

\* C8: for a byte b in 128..255, decode_byte_checked reads the slot with
\* index b - 128 = b & 127, which lies in 0..127: Some(slot value) on a
\* Complete table, the slot (Some or None) on an Incomplete table.
C8_HighByteReadsItsSlot ==
    (op \in CharDecodeOps /\ input >= 128) =>
        /\ BitAnd(input, 127) = input - 128
        /\ BitAnd(input, 127) \in DOMAIN decoder.table
        /\ DOMAIN decoder.table = 0..127
        /\ op \in {"decode_char_incomplete_table_checked", "TableType::decode_char_checked"} =>
              result = SlotOf(input)
        /\ op = "decode_char_complete_table" => Some(result) = SlotOf(input)

\* Byte 255 is decoded through slot 127, byte 200 through slot 72.
C8_Witness ==
    \/ /\ op = "TableType::decode_char_checked"
       /\ input = 255
       /\ decoder.tag = "Incomplete"
       /\ result = None
    \/ /\ op = "decode_char_complete_table"
       /\ input = 200
       /\ result = BaseChar(72)

\* C9 (as stated): on an Incomplete table decode_byte_lossy(b) is the
\* character of decode_byte_checked(b) when that is Some, and it is U+FFFD
\* if and only if decode_byte_checked(b) is None.
C9_Original ==
    (op = "decode_char_incomplete_table_lossy") =>
        LET checked == decode_char_incomplete_table_checked(input, decoder.table) IN
        /\ IsSome(checked) => result = Unwrap(checked)
        /\ result = 65533 <=> IsNone(checked)

\* C9 (amended): on an Incomplete table decode_byte_lossy(b) is the character
\* of decode_byte_checked(b) when that is Some and U+FFFD when it is None; a
\* result of U+FFFD means that decode_byte_checked(b) is None or Some(U+FFFD).
C9_LossyFollowsChecked ==
    (op = "decode_char_incomplete_table_lossy") =>
        LET checked == decode_char_incomplete_table_checked(input, decoder.table) IN
        /\ IsSome(checked) => result = Unwrap(checked)
        /\ IsNone(checked) => result = 65533
        /\ result = 65533 => checked \in {None, Some(65533)}

\* Both cases: a gap decoded to U+FFFD, and a defined slot decoded to its value.
C9_Witness ==
    /\ op = "decode_char_incomplete_table_lossy"
    /\ input = 128
    /\ \/ IsNone(decoder.table[0]) /\ result = 65533
       \/ decoder.table[0] = Some(233) /\ result = 233

\* ------------------------------------------------------------------------
\* Properties of the encoder

\* Character c has no byte: it is not ASCII and the current table has no
\* entry for it
Unmappable(c) == c >= 128 /\ c \notin DOMAIN encoder

\* The byte a mappable character c is mapped to
MappedByte(c) == IF c < 128 THEN c ELSE encoder[c]

\* C2: whatever the encoding table (also one with an entry for the
\* character), a character c with code point in 0..127 is encoded to the
\* byte c: encode_char_checked returns Some(c), encode_char_lossy returns c.
C2_AsciiEncodesToItself ==
    /\ (op = "encode_char_checked" /\ input < 128) => result = Some(input)
    /\ (op = "encode_char_lossy" /\ input < 128) => result = input

\* 'A' is encoded to 0x41 by a table that maps 'A' to another byte.
C2_Witness ==
    /\ op = "encode_char_checked"
    /\ input = 65
    /\ 65 \in DOMAIN encoder
    /\ encoder[65] # 65
    /\ result = Some(65)

\* C5: encode_sequence_checked returns no result if and only if the string
\* holds a character >= 128 that the table lacks; the loop ends at the first
\* such character, and the bytes encoded before it are not returned.
C5_CheckedEncodeAllOrNothing ==
    (op = "encode_string_checked") =>
        LET bad == {i \in 1..Len(input) : Unmappable(input[i])} IN
        /\ IsNone(result) <=> bad # {}
        /\ bad # {} =>
              /\ result = None
              /\ Len(local_ret) + 1 \in bad
              /\ \A i \in bad : Len(local_ret) + 1 <= i
        /\ bad = {} =>
              /\ result = Some(local_ret)
              /\ Len(local_ret) = Len(input)
              /\ \A i \in 1..Len(input) : local_ret[i] = MappedByte(input[i])

\* Two characters were encoded before the unmappable third one, and None is
\* returned.
C5_Witness ==
    /\ op = "encode_string_checked"
    /\ Len(input) = 3
    /\ Len(local_ret) = 2
    /\ result = None

\* C6 (as stated): encode_sequence_lossy returns as many bytes as the string
\* has characters, the i-th one being encode_char_lossy of the i-th
\* character, and 0x3F stands at a position if and only if the character
\* there is unmappable.
C6_Original ==
    (op = "encode_string_lossy") =>
        /\ Len(result) = Len(input)
        /\ \A i \in 1..Len(input) :
              /\ result[i] = encode_char_lossy(input[i], encoder)
              /\ result[i] = 63 <=> Unmappable(input[i])

\* C6 (amended): encode_sequence_lossy returns as many bytes as the string
\* has characters, the i-th one being encode_char_lossy of the i-th
\* character: 0x3F at the position of an unmappable character and the mapped
\* byte elsewhere, so that 0x3F stands only where the character is
\* unmappable or is itself mapped to 0x3F (as '?' is).
C6_LossyEncodeCharByChar ==
    (op = "encode_string_lossy") =>
        /\ Len(result) = Len(input)
        /\ \A i \in 1..Len(input) :
              /\ result[i] = encode_char_lossy(input[i], encoder)
              /\ Unmappable(input[i]) => result[i] = 63
              /\ ~Unmappable(input[i]) => result[i] = MappedByte(input[i])
              /\ result[i] = 63 =>
                    (Unmappable(input[i]) \/ MappedByte(input[i]) = 63)

\* A string with an unmappable character between two mappable ones is encoded.
C6_Witness ==
    /\ op = "encode_string_lossy"
    /\ Len(input) = 3
    /\ ~Unmappable(input[1]) /\ Unmappable(input[2]) /\ ~Unmappable(input[3])
    /\ input[1] >= 128
    /\ result[2] = 63 /\ result[1] # 63

\* C10 (as stated): for a character c >= 128, encode_char_checked returns
\* Some(byte) if the table has an entry for c and None otherwise;
\* encode_char_lossy returns that byte when the entry exists, and 0x3F if
\* and only if it does not.
C10_Original ==
    /\ (op = "encode_char_checked" /\ input >= 128) =>
          result = IF input \in DOMAIN encoder THEN Some(encoder[input]) ELSE None
    /\ (op = "encode_char_lossy" /\ input >= 128) =>
          /\ input \in DOMAIN encoder => result = encoder[input]
          /\ result = 63 <=> input \notin DOMAIN encoder

\* C10 (amended): for a character c >= 128, encode_char_checked returns
\* Some(byte) if the table has an entry for c and None otherwise;
\* encode_char_lossy returns that byte when the entry exists and 0x3F when it
\* does not; a result of 0x3F means that the entry is missing or is 0x3F.
C10_HighCharLooksUpTable ==
    /\ (op = "encode_char_checked" /\ input >= 128) =>
          result = IF input \in DOMAIN encoder THEN Some(encoder[input]) ELSE None
    /\ (op = "encode_char_lossy" /\ input >= 128) =>
          /\ input \in DOMAIN encoder => result = encoder[input]
          /\ input \notin DOMAIN encoder => result = 63
          /\ result = 63 => (input \notin DOMAIN encoder \/ encoder[input] = 63)

\* Both cases of the lossy lookup: an entry found, and an entry missing.
C10_Witness ==
    /\ op = "encode_char_lossy"
    /\ input = 233
    /\ \/ 233 \in DOMAIN encoder /\ result = 255
       \/ 233 \notin DOMAIN encoder /\ result = 63

\* ------------------------------------------------------------------------
\* Properties of the generated tables

\* The codepages of the generated decode registry
GeneratedCodePages ==
    DOMAIN Unwrap(Static(Unwrap(generated), "DECODING_TABLE_CP_MAP", 0))

\* The generated decoding table (as the registry's TableType) and encoding
\* table of code_page
GeneratedDecoder(code_page) ==
    Unwrap(DECODING_TABLE_CP_MAP_get(Unwrap(generated), code_page))
GeneratedEncoder(code_page) ==
    Unwrap(ENCODING_TABLE_CP_MAP_get(Unwrap(generated), code_page))

\* decode_byte_checked(b), then encode_char_checked of its character
RoundTrip(table_type, encoding_table, b) ==
    encode_char_checked(Unwrap(TableType_decode_char_checked(table_type, b)), encoding_table)

\* C7 (as stated): for every Complete decoding table the generator produces,
\* with its generated encoding table, and every byte b in 128..255,
\* encode_char_checked(decode_byte_checked(b).unwrap()) = Some(b).
C7_Original ==
    gen_pc = "done" =>
        \A cp \in GeneratedCodePages :
            LET table_type == GeneratedDecoder(cp)
                encoding_table == GeneratedEncoder(cp)
            IN table_type.tag = "Complete" =>
                  \A b \in 128..255 : RoundTrip(table_type, encoding_table, b) = Some(b)

\* C7 (amended): for every Complete decoding table the generator produces,
\* with its generated encoding table, and every byte b in 128..255 whose
\* slot holds a character with code point >= 128,
\* encode_char_checked(decode_byte_checked(b).unwrap()) = Some(b); a byte
\* whose slot holds a character c < 128 comes back as the byte c.
C7_RoundTripOfHighBytes ==
    gen_pc = "done" =>
        \A cp \in GeneratedCodePages :
            LET table_type == GeneratedDecoder(cp)
                encoding_table == GeneratedEncoder(cp)
            IN table_type.tag = "Complete" =>
                  \A b \in 128..255 :
                      LET c == table_type.table[b - 128]
                      IN RoundTrip(table_type, encoding_table, b)
                             = Some(IF c >= 128 THEN b ELSE c)

\* Generation has ended with a Complete table for cp437.
C7_Witness ==
    /\ gen_pc = "done"
    /\ 437 \in GeneratedCodePages
    /\ GeneratedDecoder(437).tag = "Complete"
    /\ RoundTrip(GeneratedDecoder(437), GeneratedEncoder(437), 128) = Some(128)
    /\ RoundTrip(GeneratedDecoder(437), GeneratedEncoder(437), 255) = Some(255)

\* ------------------------------------------------------------------------
\* Properties of the generator's steps

\* parse_code_tables has reached the closure that patches and slices the tables
Merging ==
    /\ gen_pc \notin {"start", "failed"}
    /\ IsSome(open_patch_file(dataset))
    /\ IsSome(parse_patch_keys(dataset.patch))

\* The local `table` of that closure after "Apply patches", for code_page
Merged(code_page) ==
    apply_patch(code_page, dataset.tables[code_page], dataset.patch)

\* The value the patch file gives slot i of code_page, if any
PatchValue(code_page, i) ==
    IF code_page \in DOMAIN dataset.patch THEN get(dataset.patch[code_page], i) ELSE None

\* The entries of an emitted decoding table as Option<char>
Entries(table) ==
    IF table.tag = "Complete"
    THEN [i \in DOMAIN table.table |-> Some(table.table[i])]
    ELSE table.table

\* The decoding tables written to the output so far
EmittedDecodingTables ==
    {output[k] : k \in {j \in DOMAIN output : output[j].item = "DECODING_TABLE"}}

\* C11 (as stated): in the merge step, for every codepage and slot, when the
\* patch defines a value for the slot the merged slot holds the patch value,
\* also when the raw value differs; otherwise it holds the raw value or stays
\* absent.
C11_Original ==
    Merging =>
        \A cp \in DOMAIN dataset.tables : \A i \in DOMAIN dataset.tables[cp] :
            Merged(cp)[i] = IF IsSome(PatchValue(cp, i))
                            THEN PatchValue(cp, i)
                            ELSE dataset.tables[cp][i]

\* C12 (as stated): a codepage's table is classified Complete if and only if
\* its merged slots 128..255 are all defined; slots 0..127 play no part.
C12_Original ==
    \A k \in DOMAIN code_tables :
        (code_tables[k].table.tag = "Complete")
            <=> (\A i \in 128..255 : IsSome(Merged(code_tables[k].code_page)[i]))

\* C13 (as stated): an emitted decoding table tagged Complete has all of its
\* 128 entries defined, and one tagged Incomplete has at least one undefined
\* entry among its 128.
C13_Original ==
    \A t \in EmittedDecodingTables :
        /\ t.value.tag = "Complete" =>
              \A i \in DOMAIN t.value.table : IsSome(Entries(t.value)[i])
        /\ t.value.tag = "Incomplete" =>
              \E i \in DOMAIN t.value.table : IsNone(t.value.table[i])

\* C14: every emitted decoding table has exactly 128 entries, and its entry
\* i is merged slot 128 + i of its codepage, so that no slot below 128 is
\* part of it.
C14_DecodingTableIsHighHalf ==
    \A t \in EmittedDecodingTables :
        /\ DOMAIN t.value.table = 0..127
        /\ \A i \in 0..127 : Entries(t.value)[i] = Merged(t.code_page)[128 + i]

\* The table of cp437 was emitted; its slot 128 came from the patch, its slot
\* 129 from the raw table, and slot 0 holds something else.
C14_Witness ==
    \E t \in EmittedDecodingTables :
        /\ t.code_page = 437
        /\ IsNone(dataset.tables[437][128])
        /\ PatchValue(437, 128) = Some(234)
        /\ Entries(t.value)[0] = Some(234)
        /\ Entries(t.value)[1] = Some(233)
        /\ Entries(t.value)[127] = Some(383)
        /\ dataset.tables[437][0] = Some(0)

\* The encoding tables written to the output so far
EmittedEncodingTables ==
    {output[k] : k \in {j \in DOMAIN output : output[j].item = "ENCODING_TABLE"}}

\* The entries of the emitted decoding table of code_page
DecodingEntries(code_page) ==
    Entries((CHOOSE t \in EmittedDecodingTables : t.code_page = code_page).value)

\* C15: a generated encoding table has an entry c -> b only if b is in
\* 128..255 and slot b - 128 of the codepage's decoding table is defined and
\* holds c, and every character of a defined decode slot is one of its keys.
C15_EncodingInvertsDecoding ==
    \A e \in EmittedEncodingTables :
        LET entries == DecodingEntries(e.code_page)
        IN /\ \A c \in DOMAIN e.value :
                 /\ e.value[c] \in 128..255
                 /\ entries[e.value[c] - 128] = Some(c)
           /\ \A i \in DOMAIN entries :
                 IsSome(entries[i]) => Unwrap(entries[i]) \in DOMAIN e.value

\* The encoding table of cp437 was written for a decoding table with an
\* undefined slot 129, a patched slot 128 and an ASCII-free high half.
C15_Witness ==
    \E e \in EmittedEncodingTables :
        /\ e.code_page = 437
        /\ IsNone(DecodingEntries(437)[1])
        /\ IsNone(dataset.tables[437][128])
        /\ 234 \in DOMAIN e.value /\ e.value[234] = 128
        /\ 383 \in DOMAIN e.value /\ e.value[383] = 255
        /\ Cardinality(DOMAIN e.value) = 127

\* Two slots i < j of an emitted decoding table hold the same character
RepeatedChar(table, i, j) ==
    /\ i < j
    /\ IsSome(Entries(table)[i])
    /\ Entries(table)[i] = Entries(table)[j]

Aborted ==
    /\ gen_pc \in {"failed", "panicked"}
    /\ code_tables = <<>>
    /\ output = <<>>
    /\ generated = None

\* A slot value that is not a Unicode scalar value
InvalidScalar(v) == IsSome(v) /\ IsNone(char_from_u32(Unwrap(v)))

\* The closure of parse_code_tables accepts the raw table of code_page
Accepted(code_page) ==
    IsSome(parse_table(code_page, dataset.tables[code_page], dataset.patch))

\* C17: generation aborts, with no table produced for any codepage, when a
\* codepage of the raw dataset has fewer than 256 slots.
C17_ShortTableAborts ==
    (/\ gen_pc # "start"
     /\ \E cp \in DOMAIN dataset.tables : Cardinality(DOMAIN dataset.tables[cp]) < 256)
        => Aborted

\* Generation panicked on a cp874 of 255 slots, with a patch file that was
\* read and a cp437 that is accepted.
C17_Witness ==
    /\ gen_pc = "panicked"
    /\ Cardinality(DOMAIN dataset.tables[874]) = 255
    /\ Merging
    /\ Accepted(437)
    /\ code_tables = <<>>

\* C18 (as stated): generation aborts when any slot of any codepage, raw or
\* patched, holds an integer that is not a Unicode scalar value, whichever
\* slot it is.
C18_Original ==
    (/\ gen_pc # "start"
     /\ \E cp \in DOMAIN dataset.tables : \E i \in DOMAIN dataset.tables[cp] :
           InvalidScalar(dataset.tables[cp][i]) \/ InvalidScalar(PatchValue(cp, i)))
        => gen_pc \in {"failed", "panicked"} /\ generated = None

\* C19 (as stated): generation aborts when the patch names a codepage the
\* raw dataset lacks, or a slot index outside 0..255; the entry is never
\* ignored.
C19_Original ==
    (/\ gen_pc # "start"
     /\ \E cp \in DOMAIN dataset.patch :
           \/ cp \notin DOMAIN dataset.tables
           \/ \E k \in DOMAIN dataset.patch[cp] : k \notin 0..255)
        => gen_pc \in {"failed", "panicked"} /\ generated = None

C21_Original ==
    gen_pc \in {"failed", "panicked"} => generated = None

\* What parse_code_tables returns when the HashMap of raw tables is iterated
\* in `order`
TablesInOrder(order) ==
    sort_unstable_by_key(
        [k \in DOMAIN order |->
            Unwrap(parse_table(order[k], dataset.tables[order[k]], dataset.patch))])

\* A sequence of numbers that strictly ascends
StrictlyAscending(seq) ==
    \A i, j \in DOMAIN seq : i < j => seq[i] < seq[j]

\* The codepages of the items named `name` in the output, in output order
EmittedCodePages(name) ==
    LET items == SelectSeq(output, LAMBDA it : it.item = name)
    IN [k \in DOMAIN items |-> items[k].code_page]

\* C22: the output does not depend on the order in which the HashMap of raw
\* tables is iterated: every order gives the tables of this run, codepages
\* are emitted in strictly ascending id order, and the entries of each
\* encoding map are entered in ascending slot order.
C22_OutputIndependentOfOrder ==
    code_tables # <<>> =>
        /\ \A order \in Orders(DOMAIN dataset.tables) : TablesInOrder(order) = code_tables
        /\ StrictlyAscending([k \in DOMAIN code_tables |-> code_tables[k].code_page])
        /\ StrictlyAscending(EmittedCodePages("DECODING_TABLE"))
        /\ StrictlyAscending(EmittedCodePages("ENCODING_TABLE"))
        /\ \A k \in DOMAIN code_tables :
              LET entries == encoding_entries(code_tables[k].table)
              IN StrictlyAscending([e \in DOMAIN entries |-> entries[e][2]])

\* Generation has ended for two codepages, written in the order 437, 874,
\* with tables that differ.
C22_Witness ==
    /\ gen_pc = "done"
    /\ EmittedCodePages("DECODING_TABLE") = <<437, 874>>
    /\ EmittedCodePages("ENCODING_TABLE") = <<437, 874>>
    /\ code_tables[1].table # code_tables[2].table

\* C23: after generation the decode registry and the encode registry have
\* the codepage ids of the raw dataset as their keys; the decode entry of a
\* codepage carries the tag its decoding table was emitted under and refers
\* to that table, and the encode entry refers to its encoding table.
C23_RegistriesMatchTables ==
    gen_pc = "done" =>
        LET module == Unwrap(generated)
            decoding == Unwrap(Static(module, "DECODING_TABLE_CP_MAP", 0))
            encoding == Unwrap(Static(module, "ENCODING_TABLE_CP_MAP", 0))
        IN /\ DOMAIN decoding = DOMAIN dataset.tables
           /\ DOMAIN encoding = DOMAIN dataset.tables
           /\ \A cp \in DOMAIN dataset.tables :
                 /\ decoding[cp].ref = cp
                 /\ IsSome(Static(module, "DECODING_TABLE", cp))
                 /\ decoding[cp].ty = Unwrap(Static(module, "DECODING_TABLE", cp)).tag
                 /\ encoding[cp] = cp
                 /\ IsSome(Static(module, "ENCODING_TABLE", cp))

\* Generation has ended with a Complete cp437 and an Incomplete cp874 in the
\* registries.
C23_Witness ==
    /\ gen_pc = "done"
    /\ GeneratedCodePages = {437, 874}
    /\ GeneratedDecoder(437).tag = "Complete"
    /\ GeneratedDecoder(874).tag = "Incomplete"
    /\ 8364 \notin DOMAIN GeneratedEncoder(874)

\* ------------------------------------------------------------------------
\* Properties of the registries

C25_Original ==
    /\ {"decode_char_checked", "decode_char_lossy",
        "decode_string_checked", "decode_string_lossy"} \subseteq TableType_methods
    /\ op = "TableType::decode_char_checked" =>
          result = IF decoder.tag = "Complete"
                   THEN Some(decode_char_complete_table(input, decoder.table))
                   ELSE decode_char_incomplete_table_checked(input, decoder.table)
    /\ op = "TableType::decode_string_checked" =>
          result = IF decoder.tag = "Complete"
                   THEN Some(decode_string_complete_table(input, decoder.table))
                   ELSE decode_string_incomplete_table_checked(input, decoder.table)
    /\ op = "TableType::decode_string_lossy" =>
          result = IF decoder.tag = "Complete"
                   THEN decode_string_complete_table(input, decoder.table)
                   ELSE decode_string_incomplete_table_lossy(input, decoder.table)

\* ------------------------------------------------------------------------
\* Properties of the patch overlay

\* The slots the raw table of code_page leaves absent
AbsentSlots(code_page) ==
    {i \in DOMAIN dataset.tables[code_page] : IsNone(dataset.tables[code_page][i])}

\* The raw table of code_page has absent slots and the patch defines a value
\* for each of them
PatchFillsAbsentSlots(code_page) ==
    /\ AbsentSlots(code_page) # {}
    /\ \A i \in AbsentSlots(code_page) : IsSome(PatchValue(code_page, i))

\* What the emitted decoding table t holds for slot i of the raw table: None
\* when it has no entry for the slot or the entry is undefined
EmittedSlot(t, i) ==
    IF i - 128 \in DOMAIN t.value.table THEN Entries(t.value)[i - 128] ELSE None

\* C29 (as stated): a codepage whose raw table has absent slots, each given a
\* value by the patch, is classified Complete, and its emitted table holds the
\* patch value in every one of those slots.
C29_Original ==
    \A t \in EmittedDecodingTables :
        PatchFillsAbsentSlots(t.code_page) =>
            /\ t.value.tag = "Complete"
            /\ \A i \in AbsentSlots(t.code_page) :
                  EmittedSlot(t, i) = PatchValue(t.code_page, i)

\* C29 (amended): a codepage whose raw table has absent slots, each given a
\* value by the patch, is classified Complete when it is parsed, and its
\* emitted table holds the patch value in every one of those slots that lies
\* in 128..255; a patch value for a slot below 128 only counts for the
\* classification.
C29_PatchBeforeClassification ==
    /\ \A k \in DOMAIN code_tables :
          PatchFillsAbsentSlots(code_tables[k].code_page) =>
              /\ code_tables[k].table.tag = "Complete"
              /\ \A i \in AbsentSlots(code_tables[k].code_page) \cap (128..255) :
                    Some(code_tables[k].table.table[i - 128])
                        = PatchValue(code_tables[k].code_page, i)
    /\ \A t \in EmittedDecodingTables :
          PatchFillsAbsentSlots(t.code_page) =>
              /\ t.value.tag = "Complete"
              /\ \A i \in AbsentSlots(t.code_page) \cap (128..255) :
                    EmittedSlot(t, i) = PatchValue(t.code_page, i)

\* The raw table of cp437 leaves slots 0 and 128 absent, the patch gives both
\* a value, and the table was emitted as Complete with the patch value of
\* slot 128 in its first entry.
C29_Witness ==
    \E t \in EmittedDecodingTables :
        /\ t.code_page = 437
        /\ AbsentSlots(437) = {0, 128}
        /\ PatchValue(437, 0) = Some(234)
        /\ PatchValue(437, 128) = Some(234)
        /\ t.value.tag = "Complete"
        /\ t.value.table[0] = 234
        /\ gen_pc = "done"

\* ------------------------------------------------------------------------
\* Decoding what was encoded

\* The characters tried with an encoding table: its keys, every character
\* below 128, and characters above that the tables here do not hold
EncodeChars(encoding_table) ==
    DOMAIN encoding_table \cup (0..127) \cup {128, 400, REPLACEMENT}

\* C30: for every generated encoding table and every character c with
\* encode_char_checked(c) = Some(b), decoding b with the decoding table of
\* the same codepage returns c, also when c is below 128.
C30_DecodeAfterEncode ==
    gen_pc = "done" =>
        \A cp \in GeneratedCodePages :
            \A c \in EncodeChars(GeneratedEncoder(cp)) :
                LET b == encode_char_checked(c, GeneratedEncoder(cp))
                IN IsSome(b) =>
                      TableType_decode_char_checked(GeneratedDecoder(cp), Unwrap(b)) = Some(c)

\* Generation has ended; slot 128 of cp437 holds 'A', which is encoded as
\* the byte 0x41 and decoded back, and the character of slot 255 is encoded
\* as 0xFF and decoded back; cp437 is Complete, cp874 is Incomplete and the
\* character of its slot 129 comes back too.
C30_Witness ==
    /\ gen_pc = "done"
    /\ GeneratedDecoder(437).tag = "Complete"
    /\ GeneratedDecoder(437).table[0] = 65
    /\ encode_char_checked(65, GeneratedEncoder(437)) = Some(65)
    /\ TableType_decode_char_checked(GeneratedDecoder(437), 65) = Some(65)
    /\ encode_char_checked(383, GeneratedEncoder(437)) = Some(255)
    /\ TableType_decode_char_checked(GeneratedDecoder(437), 255) = Some(383)
    /\ GeneratedDecoder(874).tag = "Incomplete"
    /\ encode_char_checked(257, GeneratedEncoder(874)) = Some(129)
    /\ TableType_decode_char_checked(GeneratedDecoder(874), 129) = Some(257)
    /\ IsNone(encode_char_checked(400, GeneratedEncoder(874)))

\* ------------------------------------------------------------------------
\* Properties of threads sharing the tables

\* What the call of `name` with `arg` returns when it runs alone
Alone(name, arg) ==
    CASE name = "decode_string_complete_table" ->
            decode_string_complete_table(arg, decoder.table)
      [] name = "decode_string_incomplete_table_checked" ->
            decode_string_incomplete_table_checked(arg, decoder.table)
      [] name = "decode_string_incomplete_table_lossy" ->
            decode_string_incomplete_table_lossy(arg, decoder.table)
      [] name = "encode_string_checked" -> encode_string_checked(arg, encoder)
      [] name = "encode_string_lossy" -> encode_string_lossy(arg, encoder)
      [] name = "DECODING_TABLE_CP_MAP.get" ->
            DECODING_TABLE_CP_MAP_get(SharedModule, arg)
      [] name = "ENCODING_TABLE_CP_MAP.get" ->
            ENCODING_TABLE_CP_MAP_get(SharedModule, arg)

\* The module, and the tables the threads use, are as they were generated
\* from the parsed tables
TablesAsGenerated ==
    /\ code_tables = SharedTables
    /\ generated = Some(SharedModule)
    /\ \E code_page \in GeneratedCodePages :
          /\ decoder = GeneratedDecoder(code_page)
          /\ encoder = GeneratedEncoder(code_page)

\* C26: operations that run concurrently over the same tables, in any
\* interleaving, each return what they return when run alone, and no
\* interleaving leaves a table or registry different from its generated
\* value.
C26_ConcurrentCallsAsAlone ==
    /\ TablesAsGenerated
    /\ \A t \in Threads :
          threads[t].pc = "returned"
              => threads[t].result = Alone(threads[t].op, threads[t].input)

\* One thread has returned from encode_string_checked while the other is in
\* the middle of a decode of two bytes.
C26_Witness ==
    /\ threads["t1"].pc = "returned"
    /\ threads["t1"].op = "encode_string_checked"
    /\ threads["t1"].input = <<65, 256>>
    /\ threads["t1"].result = Some(<<65, 128>>)
    /\ threads["t2"].pc = "running"
    /\ threads["t2"].op = "decode_string_complete_table"
    /\ threads["t2"].input = <<129, 65>>
    /\ threads["t2"].ret = <<257>>

\* C27: after any sequence of decode, encode and lookup operations, failed
\* or not, every table and registry is as it was generated, and an operation
\* called again with the same input returns what it returned before.
C27_TablesKeptAndCallsRepeat ==
    /\ TablesAsGenerated
    /\ \A t \in Threads :
          (threads[t].pc = "returned" /\ IsSome(threads[t].earlier))
              => threads[t].result = Unwrap(threads[t].earlier)

\* A checked decode that failed on an undefined byte was called again and
\* failed again, after the other thread decoded the same byte lossily.
C27_Witness ==
    /\ threads["t1"].pc = "returned"
    /\ threads["t1"].op = "decode_string_incomplete_table_checked"
    /\ threads["t1"].input = <<129, 128>>
    /\ threads["t1"].earlier = Some(None)
    /\ threads["t1"].result = None
    /\ threads["t2"].pc = "returned"
    /\ threads["t2"].op = "decode_string_incomplete_table_lossy"
    /\ threads["t2"].input = <<128>>
    /\ threads["t2"].result = <<REPLACEMENT>>

\* C28: when a checked sequence operation returns a result, the lossy
\* operation on the same input and table returns the same:
\* encode_string_checked(s) = Some(v) implies encode_string_lossy(s) = v, and
\* decode_string_incomplete_table_checked(b) = Some(t) implies
\* decode_string_incomplete_table_lossy(b) = t.
C28_LossyAgreesWithCheckedResult ==
    \A t \in Threads :
        (threads[t].pc = "returned" /\ IsSome(threads[t].result)) =>
            /\ threads[t].op = "encode_string_checked" =>
                  encode_string_lossy(threads[t].input, encoder)
                      = Unwrap(threads[t].result)
            /\ threads[t].op = "decode_string_incomplete_table_checked" =>
                  decode_string_incomplete_table_lossy(threads[t].input, decoder.table)
                      = Unwrap(threads[t].result)

\* A checked encode of 'A' and a checked decode of 'A' and the high byte 0x81
\* have both returned a result.
C28_Witness ==
    /\ threads["t1"].pc = "returned"
    /\ threads["t1"].op = "encode_string_checked"
    /\ threads["t1"].input = <<65>>
    /\ threads["t1"].result = Some(<<65>>)
    /\ threads["t2"].pc = "returned"
    /\ threads["t2"].op = "decode_string_incomplete_table_checked"
    /\ threads["t2"].input = <<65, 129>>
    /\ threads["t2"].result = Some(<<65, 257>>)

====
